---- MODULE Spec2Model ----
(***************************************************************************)
(* LAYERS mobile client: the geo helpers of the useLocation hook           *)
(* (calculateDistance, isWithinRadius, getDistanceTo), the location store   *)
(* they read, the Fog of War grid math, the anti-cheat evaluator of the     *)
(* backend design and the service that calls it, and the API service with   *)
(* its token-refresh interceptors, SecureStore and the auth store; the      *)
(* location watch of the store with the mount effect of useLocation, and   *)
(* the offline banner.                                                     *)
(*                                                                         *)
(* Spec: the helpers and the evaluator called one at a time.               *)
(* SpecHook: the hook's helpers called again while the location changes.   *)
(* SpecService: evaluations running concurrently in the location service.  *)
(* SpecAuth: requests, token refresh, login, logout and loadStoredAuth.    *)
(* SpecWatch: watchLocation, stopWatching, reset, mount and unmount.       *)
(* SpecBanner: OfflineBanner under connectivity changes.                   *)
(***************************************************************************)
EXTENDS Integers, Sequences, FiniteSets, TLC

(***************************************************************************)
(* JavaScript numbers.  A number is a binary floating-point value          *)
(* s * m * 2^e with a 28-bit significand (2^27 <= m < 2^28), zero          *)
(* (m = 0) or NaN (s = 0).  Results are truncated to the significand.      *)
(***************************************************************************)
NaN == [s |-> 0, m |-> 0, e |-> 0]

Zero == [s |-> 1, m |-> 0, e |-> 0]

IsNaN(a) == a.s = 0

\* <<m, e>> with m shifted left by k bits when that keeps m below 2^28.
NormStep(p, k) ==
    IF p[1] < 2^(28 - k) THEN <<p[1] * 2^k, p[2] - k>> ELSE p

MakeNum(s, p) == [s |-> s, m |-> p[1], e |-> p[2]]

\* m * 2^e (0 <= m < 2^31) brought to a 28-bit significand.
Norm(s, m, e) ==
    IF m = 0 THEN Zero
    ELSE IF m >= 2^30 THEN [s |-> s, m |-> m \div 8, e |-> e + 3]
    ELSE IF m >= 2^29 THEN [s |-> s, m |-> m \div 4, e |-> e + 2]
    ELSE IF m >= 2^28 THEN [s |-> s, m |-> m \div 2, e |-> e + 1]
    ELSE MakeNum(s, NormStep(NormStep(NormStep(NormStep(NormStep(
                        <<m, e>>, 16), 8), 4), 2), 1))

\* The number of an integer |n| < 2^30.
Num(n) == IF n < 0 THEN Norm(-1, -n, 0) ELSE Norm(1, n, 0)

Neg(a) == [a EXCEPT !.s = -a.s]

\* |a| < |b| for non-NaN a, b.
AbsLt(a, b) ==
    IF b.m = 0 THEN FALSE
    ELSE IF a.m = 0 THEN TRUE
    ELSE a.e < b.e \/ (a.e = b.e /\ a.m < b.m)

\* a < b and a <= b as JavaScript compares numbers: false when either is NaN.
Lt(a, b) ==
    IF IsNaN(a) \/ IsNaN(b) THEN FALSE
    ELSE IF a.m = 0 /\ b.m = 0 THEN FALSE
    ELSE IF a.m = 0 THEN b.s = 1
    ELSE IF b.m = 0 THEN a.s = -1
    ELSE IF a.s # b.s THEN a.s = -1
    ELSE IF a.s = 1 THEN AbsLt(a, b) ELSE AbsLt(b, a)

NumEq(a, b) ==
    /\ ~IsNaN(a)
    /\ ~IsNaN(b)
    /\ a.m = b.m
    /\ (a.m = 0 \/ (a.s = b.s /\ a.e = b.e))

Le(a, b) == Lt(a, b) \/ NumEq(a, b)

\* a * b
Mul(a, b) ==
    IF IsNaN(a) \/ IsNaN(b) THEN NaN
    ELSE IF a.m = 0 \/ b.m = 0 THEN Zero
    ELSE LET ah == a.m \div 2^14
             al == a.m % 2^14
             bh == b.m \div 2^14
             bl == b.m % 2^14
             x  == ah * bl + al * bh + ((al * bl) \div 2^14)
             t  == ah * bh + (x \div 2^14)
         IN  IF t >= 2^27
             THEN [s |-> a.s * b.s, m |-> t, e |-> a.e + b.e + 28]
             ELSE [s |-> a.s * b.s,
                   m |-> 2 * t + ((x % 2^14) \div 2^13),
                   e |-> a.e + b.e + 27]

\* hi + lo for |hi| >= |lo| > 0, computed with two guard bits
AddOrdered(hi, lo) ==
    LET lm == IF hi.e - lo.e > 29 THEN 0 ELSE (lo.m * 4) \div 2^(hi.e - lo.e)
    IN  IF hi.s = lo.s
        THEN Norm(hi.s, hi.m * 4 + lm, hi.e - 2)
        ELSE Norm(hi.s, hi.m * 4 - lm, hi.e - 2)

\* a + b
Add(a, b) ==
    IF IsNaN(a) \/ IsNaN(b) THEN NaN
    ELSE IF a.m = 0 THEN b
    ELSE IF b.m = 0 THEN a
    ELSE IF AbsLt(a, b) THEN AddOrdered(b, a)
    ELSE AddOrdered(a, b)

Sub(a, b) == Add(a, Neg(b))

\* Long division of significands, two quotient bits a step.
RECURSIVE DivDigits(_, _, _, _)
DivDigits(r, d, q, k) ==
    IF k = 0 THEN q
    ELSE DivDigits((r * 4) % d, d, q * 4 + ((r * 4) \div d), k - 1)

\* a / b (b # 0 in every use)
Div(a, b) ==
    IF IsNaN(a) \/ IsNaN(b) \/ b.m = 0 THEN NaN
    ELSE IF a.m = 0 THEN Zero
    ELSE Norm(a.s * b.s,
              DivDigits(a.m % b.m, b.m, a.m \div b.m, 14),
              a.e - b.e - 28)

\* Integer square root by Newton's iteration from above.
RECURSIVE ISqrt(_, _)
ISqrt(n, y) ==
    LET z == (y + n \div y) \div 2
    IN  IF z >= y THEN y ELSE ISqrt(n, z)

Half(a) == IF a.m = 0 \/ IsNaN(a) THEN a ELSE [a EXCEPT !.e = a.e - 1]

Twice(a) == IF a.m = 0 \/ IsNaN(a) THEN a ELSE [a EXCEPT !.e = a.e + 1]

\* The root of a > 0 to 14 bits: the integer root of the significand, the
\* exponent made even.
SqrtSeed(a) ==
    IF a.e % 2 = 1
    THEN Norm(1, ISqrt(a.m * 2, 2^15), (a.e - 1) \div 2)
    ELSE Norm(1, ISqrt(a.m, 2^15), a.e \div 2)

\* One step of Newton's iteration for the root of a.
NewtonStep(a, x) == Half(Add(x, Div(a, x)))

\* Math.sqrt: NaN below zero; the 14-bit root refined by two Newton steps.
MathSqrt(a) ==
    IF IsNaN(a) THEN NaN
    ELSE IF a.m = 0 THEN Zero
    ELSE IF a.s = -1 THEN NaN
    ELSE NewtonStep(a, NewtonStep(a, SqrtSeed(a)))

Pi == [s |-> 1, m |-> 210828714, e |-> -26]

\* A term of a power series no longer changes a sum of 28 bits.
Negligible(term, sum) == term.m = 0 \/ (sum.m # 0 /\ sum.e - term.e > 30)

\* sum + term + next terms, where next term = -term * x2 / (k * (k + 1)).
RECURSIVE TaylorSum(_, _, _, _)
TaylorSum(term, sum, x2, k) ==
    IF Negligible(term, sum) \/ k > 40 THEN sum
    ELSE TaylorSum(Neg(Div(Mul(term, x2), Num(k * (k + 1)))),
                   Add(sum, term), x2, k + 2)

\* Math.sin(x) = x - x^3/3! + x^5/5! - ...
MathSin(x) == IF IsNaN(x) THEN NaN ELSE TaylorSum(x, Zero, Mul(x, x), 2)

\* Math.cos(x) = 1 - x^2/2! + x^4/4! - ...
MathCos(x) == IF IsNaN(x) THEN NaN ELSE TaylorSum(Num(1), Zero, Mul(x, x), 1)

\* t - t^3/3 + t^5/5 - ... for 0 <= t <= 1/4; pw is the current power of t.
RECURSIVE AtanSum(_, _, _, _)
AtanSum(pw, sum, t2, k) ==
    IF Negligible(pw, sum) \/ k > 40 THEN sum
    ELSE AtanSum(Neg(Mul(pw, t2)), Add(sum, Div(pw, Num(k))), t2, k + 2)

\* atan(t) for 0 <= t <= 1, halving the angle while t > 1/4:
\* atan(t) = 2 * atan(t / (1 + sqrt(1 + t^2))).
RECURSIVE Atan(_)
Atan(t) ==
    IF Lt(Div(Num(1), Num(4)), t)
    THEN Twice(Atan(Div(t, Add(Num(1), MathSqrt(Add(Num(1), Mul(t, t)))))))
    ELSE AtanSum(t, Zero, Mul(t, t), 1)

\* Math.atan2(y, x) for y >= 0 and x >= 0, the only arguments the haversine
\* formula passes (two square roots); NaN when either argument is NaN.
MathAtan2(y, x) ==
    IF IsNaN(y) \/ IsNaN(x) THEN NaN
    ELSE IF y.m = 0 THEN Zero
    ELSE IF x.m = 0 THEN Half(Pi)
    ELSE IF Le(y, x) THEN Atan(Div(y, x))
    ELSE Sub(Half(Pi), Atan(Div(x, y)))

\* A coordinate component given in micro-degrees, as a number of degrees.
Degrees(microdeg) == Div(Num(microdeg), Num(1000000))

Square(x) == Mul(x, x)

ToRadians(deg) == Div(Mul(deg, Pi), Num(180))

\* haversineA that takes the cosine of the first latitude for both points.
haversineAOneSided(p1, p2, dp, dl) ==
    Add(Square(MathSin(Half(dp))),
        Mul(Mul(MathCos(p1), MathCos(p1)), Square(MathSin(Half(dl)))))

\* const a = sin^2(dphi / 2) + cos(phi1) * cos(phi2) * sin^2(dlambda / 2)
haversineA(p1, p2, dp, dl) ==
    Add(Square(MathSin(Half(dp))),
        Mul(Mul(MathCos(p1), MathCos(p2)), Square(MathSin(Half(dl)))))

\* haversineC with the two arguments of atan2 exchanged.
haversineCSwapped(a) == Twice(MathAtan2(MathSqrt(Sub(Num(1), a)), MathSqrt(a)))

\* const c = 2 * Math.atan2(Math.sqrt(a), Math.sqrt(1 - a))
haversineC(a) == Twice(MathAtan2(MathSqrt(a), MathSqrt(Sub(Num(1), a))))

\* calculateDistance with the Earth's radius in kilometres.
calculateDistanceKm(lat1, lon1, lat2, lon2) ==
    Mul(Num(6371),
        haversineC(haversineA(ToRadians(lat1), ToRadians(lat2),
                              ToRadians(Sub(lat2, lat1)),
                              ToRadians(Sub(lon2, lon1)))))

\* HELPER: Calculate distance using Haversine formula
calculateDistance(lat1, lon1, lat2, lon2) ==
    Mul(Num(6371000),
        haversineC(haversineA(ToRadians(lat1), ToRadians(lat2),
                              ToRadians(Sub(lat2, lat1)),
                              ToRadians(Sub(lon2, lon1)))))

(***************************************************************************)
(* Coordinates and the inputs the model draws from.                        *)
(***************************************************************************)
\* interface Coordinates { latitude: number; longitude: number }
Coord(latMicro, lonMicro) ==
    [latitude |-> Degrees(latMicro), longitude |-> Degrees(lonMicro)]

Null == [null |-> TRUE]

\* Config.MAP_DEFAULT_REGION (Ho Chi Minh City) and points about 0.1 m north,
\* 15 m north, 25 m east, 10 km north and 1.5 km north-east of it.
Home == Coord(10776900, 106700900)

North01 == Coord(10776901, 106700900)

North15 == Coord(10777035, 106700900)

East25 == Coord(10776900, 106701129)

North10km == Coord(10866833, 106700900)

NorthEast == Coord(10786900, 106710900)

\* Numbers that are no latitude (91 degrees) and no longitude (181 degrees).
BadLatitude == Coord(91000000, 106700900)

BadLongitude == Coord(10776900, 181000000)

ValidCoords == {Home, North01, North15, East25, North10km, NorthEast}

Coords == ValidCoords \cup {BadLatitude, BadLongitude}

\* Coordinate: latitude in [-90, 90], longitude in [-180, 180].
IsValidCoordinate(c) ==
    /\ Le(Num(-90), c.latitude)
    /\ Le(c.latitude, Num(90))
    /\ Le(Num(-180), c.longitude)
    /\ Le(c.longitude, Num(180))

\* calculateDistance over the coordinates of the model, tabulated once
\* (@@ makes the function a table instead of a rule applied at each use).
DistanceTable ==
    [p \in Coords \X Coords |->
        calculateDistance(p[1].latitude, p[1].longitude,
                          p[2].latitude, p[2].longitude)] @@ <<>>

\* distanceMeters(a, b): the haversine distance of two coordinates.
distanceMeters(a, b) == DistanceTable[<<a, b>>]

(***************************************************************************)
(* useLocation helpers (mobile client).                                    *)
(***************************************************************************)
\* isWithinRadius with an exclusive boundary.
isWithinRadiusExclusive(location, targetLat, targetLng, radiusMeters) ==
    IF location = Null THEN FALSE
    ELSE Lt(calculateDistance(location.latitude, location.longitude,
                              targetLat, targetLng),
            radiusMeters)

\* Check if user is within radius of a point
isWithinRadius(location, targetLat, targetLng, radiusMeters) ==
    IF location = Null THEN FALSE
    ELSE Le(calculateDistance(location.latitude, location.longitude,
                              targetLat, targetLng),
            radiusMeters)

\* Calculate distance to a point
getDistanceTo(location, targetLat, targetLng) ==
    IF location = Null THEN Null
    ELSE calculateDistance(location.latitude, location.longitude,
                           targetLat, targetLng)

(***************************************************************************)
(* Fog of War grid math (Ho Chi Minh City latitude).                       *)
(***************************************************************************)
\* The whole part of |x|, for |x| < 2^28.
IntegerPart(x) ==
    IF x.m = 0 \/ x.e <= -28 THEN 0
    ELSE IF x.e >= 0 THEN x.m * 2^x.e
    ELSE x.m \div 2^(-x.e)

\* int(x): the number without its fraction, rounded toward zero.
int(x) == x.s * IntegerPart(x)

\* ~100m longitude and ~100m latitude, in degrees.
LonDegPerChunk == Degrees(917)

LatDegPerChunk == Degrees(900)

\* chunk_x = int(longitude / 0.000917), chunk_y = int(latitude / 0.0009)
chunkOf(coord) ==
    [chunk_x |-> int(Div(coord.longitude, LonDegPerChunk)),
     chunk_y |-> int(Div(coord.latitude, LatDegPerChunk))]

(***************************************************************************)
(* Anti-cheat evaluator (backend location service).                        *)
(***************************************************************************)
\* Jumping check: more than 5 km/sec is suspicious.
MaxSpeedMps == 5000

\* Rate limit: 3 per day.
DailyReportCap == 3

\* Minimum distance between artifacts: 20 m.
MinPlacementDistance == 20

ReasonCodes ==
    {"MOCKED", "IMPOSSIBLE_SPEED", "RATE_LIMIT_EXCEEDED", "TOO_CLOSE_TO_EXISTING"}

\* isMocked that trusts every report.
isMockedIgnored(report) == FALSE

\* Reason MOCKED: report.is_mocked == true
isMocked(report) == report.is_mocked

\* isImpossibleSpeed with epsilon = 1 ms: a small movement in no time is a
\* finite speed below the threshold.
isImpossibleSpeedFiniteEpsilon(report, previousReport) ==
    IF previousReport = Null THEN FALSE
    ELSE LET distance == distanceMeters(previousReport.coordinate,
                                        report.coordinate)
             elapsedSeconds == Sub(report.timestamp, previousReport.timestamp)
             epsilon == Div(Num(1), Num(1000))
         IN  IF Lt(epsilon, elapsedSeconds)
             THEN Lt(Num(MaxSpeedMps), Div(distance, elapsedSeconds))
             ELSE Lt(Num(MaxSpeedMps), Div(distance, epsilon))

\* Reason IMPOSSIBLE_SPEED: speed = distance / max(elapsedSeconds, epsilon)
\* above the threshold.  epsilon is below every positive elapsed time, so a
\* division by epsilon (elapsed <= 0) is an infinite speed when the report
\* moved at all and speed 0 when it did not.
isImpossibleSpeed(report, previousReport) ==
    IF previousReport = Null THEN FALSE
    ELSE LET distance == distanceMeters(previousReport.coordinate,
                                        report.coordinate)
             elapsedSeconds == Sub(report.timestamp, previousReport.timestamp)
         IN  IF Lt(Zero, elapsedSeconds)
             THEN Lt(Num(MaxSpeedMps), Div(distance, elapsedSeconds))
             ELSE Lt(Zero, distance)

\* isRateLimitExceeded that allows one report more than the cap.
isRateLimitExceededOffByOne(recentReportsToday) ==
    recentReportsToday > DailyReportCap

\* Reason RATE_LIMIT_EXCEEDED: recentReportsToday >= cap
isRateLimitExceeded(recentReportsToday) == recentReportsToday >= DailyReportCap

\* Reason TOO_CLOSE_TO_EXISTING: any prior placement within 20 m
isTooCloseToExisting(report, recentArtifactPlacements) ==
    \E i \in 1..Len(recentArtifactPlacements) :
        Le(distanceMeters(recentArtifactPlacements[i], report.coordinate),
           Num(MinPlacementDistance))

\* Out-of-range latitude/longitude fails with InvalidCoordinate.
hasInvalidCoordinate(report, previousReport, recentArtifactPlacements) ==
    \/ ~IsValidCoordinate(report.coordinate)
    \/ previousReport # Null /\ ~IsValidCoordinate(previousReport.coordinate)
    \/ \E i \in 1..Len(recentArtifactPlacements) :
           ~IsValidCoordinate(recentArtifactPlacements[i])

\* collectReasons that stops at the first check that triggers.
collectReasonsShortCircuit(report, previousReport, recentReportsToday, recentArtifactPlacements) ==
    IF isMocked(report) THEN {"MOCKED"}
    ELSE IF isImpossibleSpeed(report, previousReport)
    THEN {"IMPOSSIBLE_SPEED"}
    ELSE IF isRateLimitExceeded(recentReportsToday)
    THEN {"RATE_LIMIT_EXCEEDED"}
    ELSE IF isTooCloseToExisting(report, recentArtifactPlacements)
    THEN {"TOO_CLOSE_TO_EXISTING"}
    ELSE {}

\* All checks run independently; all triggered reasons are reported.
collectReasons(report, previousReport, recentReportsToday, recentArtifactPlacements) ==
    (IF isMocked(report) THEN {"MOCKED"} ELSE {})
    \cup (IF isImpossibleSpeed(report, previousReport)
          THEN {"IMPOSSIBLE_SPEED"} ELSE {})
    \cup (IF isRateLimitExceeded(recentReportsToday)
          THEN {"RATE_LIMIT_EXCEEDED"} ELSE {})
    \cup (IF isTooCloseToExisting(report, recentArtifactPlacements)
          THEN {"TOO_CLOSE_TO_EXISTING"} ELSE {})

\* isFlagged that raises the flag only for two or more reasons.
isFlaggedSeveral(reasons) == Cardinality(reasons) > 1

\* flagged = reasons is non-empty
isFlagged(reasons) == reasons # {}

evaluateReport(report, previousReport, recentReportsToday, recentArtifactPlacements) ==
    IF hasInvalidCoordinate(report, previousReport, recentArtifactPlacements)
    THEN [outcome |-> "InvalidCoordinate"]
    ELSE LET reasons == collectReasons(report, previousReport,
                                       recentReportsToday,
                                       recentArtifactPlacements)
         IN  [outcome |-> "returned",
              flagged |-> isFlagged(reasons),
              reasons |-> reasons]

(***************************************************************************)
(* Inputs of the calls.                                                    *)
(***************************************************************************)
\* Config.GEO.UNLOCK_RADIUS_METERS: Proof of Presence radius
UNLOCK_RADIUS_METERS == 50

\* A radius equal, to the last bit, to the distance from Home to North15.
BoundaryRadius == distanceMeters(Home, North15)

Radii ==
    {Num(-5), Zero, Num(10), BoundaryRadius, Num(20), Num(UNLOCK_RADIUS_METERS)}

\* The time in which Home -> North10km is a speed of exactly MaxSpeedMps.
BoundaryElapsed == Div(distanceMeters(Home, North10km), Num(MaxSpeedMps))

ReportTimes == {Num(1), BoundaryElapsed}

PreviousTimes == {Zero, Num(1)}

PreviousReports ==
    {Null} \cup
    [coordinate : {Home, North01, North10km, BadLatitude},
     timestamp : PreviousTimes,
     is_mocked : {FALSE}]

MaxReportsToday == 4

MaxPlacements == 2

PlacementCoords == {Home, North15, East25}

PlacementSeqs == UNION {[1..n -> PlacementCoords] : n \in 0..MaxPlacements}

\* GPS points sent to the grid: Home, a point of Home's cell, a point 150 m
\* east of Home, and points on both sides of the prime meridian (150 m apart
\* along longitude) and of the equator (100 m apart along latitude).
SameCellAsHome == Coord(10777200, 106700500)

East150 == Coord(10776900, 106702276)

MeridianWest == Coord(10776900, -688)

MeridianEast == Coord(10776900, 688)

EquatorSouth == Coord(-450, 106700900)

EquatorNorth == Coord(450, 106700900)

ChunkCoords ==
    {Home, SameCellAsHome, East150, MeridianWest, MeridianEast, EquatorSouth,
     EquatorNorth}

(***************************************************************************)
(* State: the location store, and the call being made with its result.     *)
(***************************************************************************)
VARIABLES currentLocation, lastKnownLocation, call

\* The location service: the evaluations in progress, one per request being
\* served, and the data its callers own.
VARIABLES pending, ledger

serviceVars == <<pending, ledger>>

\* The API service (isRefreshing, failedQueue and the requests made through
\* the axios instance), SecureStore, and the auth store with the operation
\* of it that is in progress.
VARIABLES isRefreshing, failedQueue, requests, secureStore, authStore, authOp

authVars ==
    <<isRefreshing, failedQueue, requests, secureStore, authStore, authOp>>

\* The location store's watch (permissionStatus, isWatching, the module's
\* locationSubscription, the subscriptions the OS has handed out), the calls
\* of the store's async functions that are in progress, and the component
\* that uses useLocation.
VARIABLES permissionStatus, isWatching, locationSubscription, subscriptions,
          threads, component

watchVars ==
    <<permissionStatus, isWatching, locationSubscription, subscriptions,
      threads, component>>

\* OfflineBanner: the status state of useNetworkStatus, the component's state and
\* refs, and its timeouts that have not fired yet.
VARIABLES networkStatus, showReconnected, wasOffline, slideAnim, timeouts

bannerVars ==
    <<networkStatus, showReconnected, wasOffline, slideAnim, timeouts>>

outsideVars == <<serviceVars, authVars, watchVars, bannerVars>>

hookVars == <<currentLocation, lastKnownLocation, call>>

vars == <<currentLocation, lastKnownLocation, call, outsideVars>>

NoCall == [op |-> "none"]

Callers == {"request1", "request2"}

Idle == [pc |-> "idle"]

EmptyLedger ==
    [recentReportsToday |-> 0,
     previousReport |-> Null,
     recentArtifactPlacements |-> <<>>]

InitService ==
    /\ pending = [t \in Callers |-> Idle]
    /\ ledger = EmptyLedger

\* The requests the app makes: two of the main screens, to protected
\* endpoints (the second one is authService.getMe or authService.logout),
\* and one of the auth screens.
Requests == {"explored", "me", "auth"}

\* The auth endpoints, as paths split at "/".
authEndpoints ==
    {<<"auth", "login">>, <<"auth", "register">>, <<"auth", "refresh">>}

\* The URLs a request may be made to.
urls(r) ==
    CASE r = "explored" -> {<<"map", "explored">>}
      [] r = "me" -> {<<"auth", "me">>, <<"auth", "logout">>}
      [] r = "auth" -> authEndpoints

\* A request that was not made yet.  authorization and data are tokens
\* (0: none); status is the last response status or error.
NewRequest ==
    [pc |-> "idle", url |-> <<>>, _retry |-> FALSE, replays |-> 0,
     authorization |-> 0, status |-> "none", data |-> 0]

\* SecureStore without items, and with the items of an earlier session.
EmptyStore == [access_token |-> 0, refresh_token |-> 0, user |-> 0]

StoredSession == [access_token |-> 1, refresh_token |-> 1, user |-> 1]

NoAuthOp == [op |-> "none"]

\* let isRefreshing = false; let failedQueue = []; the auth store's initial
\* state (user: null, tokens: null, isLoading: true, isAuthenticated: false).
\* user and tokens are 0 for null and 1 for an object.
InitApi ==
    /\ isRefreshing = FALSE
    /\ failedQueue = <<>>
    /\ requests = [r \in Requests |-> NewRequest]
    /\ authStore = [user |-> 0, tokens |-> 0,
                    isAuthenticated |-> FALSE, isLoading |-> TRUE]
    /\ authOp = NoAuthOp

\* The async functions that run side by side: initializeLocation of the
\* mounted component, and two calls of watchLocation (the tracking button).
Threads == {"initializeLocation", "watchLocation1", "watchLocation2"}

MaxSubscriptions == 3

Unmounted ==
    [mounted |-> FALSE, autoRequest |-> FALSE, autoWatch |-> FALSE,
     isWatching |-> FALSE]

\* let locationSubscription = null (0; a subscription is its number); the
\* store's initial state; no component mounted.
InitWatch ==
    /\ permissionStatus = "null"
    /\ isWatching = FALSE
    /\ locationSubscription = 0
    /\ subscriptions = [created |-> 0, active |-> {}]
    /\ threads = [t \in Threads |-> Idle]
    /\ component = Unmounted

\* useNetworkStatus starts connected; the banner starts above the screen
\* (new Animated.Value(-50)) with no animation running.
InitBanner ==
    /\ networkStatus = [isConnected |-> TRUE, isInternetReachable |-> "true",
                        connectionType |-> "unknown", isWifi |-> FALSE]
    /\ showReconnected = FALSE
    /\ wasOffline = FALSE
    /\ slideAnim = [toValue |-> -50, animation |-> "none"]
    /\ timeouts = 0

Init ==
    /\ currentLocation = Null
    /\ lastKnownLocation = Null
    /\ call = NoCall
    /\ InitService
    /\ InitApi
    /\ InitWatch
    /\ InitBanner
    /\ secureStore = EmptyStore

\* Manually set location (for testing)
setLocation ==
    /\ call = NoCall
    /\ \E location \in Coords :
           /\ currentLocation' = location
           /\ lastKnownLocation' = location
    /\ UNCHANGED <<call, outsideVars>>

\* A component calls the hook's isWithinRadius.
CallIsWithinRadius ==
    /\ call = NoCall
    /\ \E target \in Coords, radiusMeters \in Radii :
           call' = [op |-> "isWithinRadius",
                    user |-> currentLocation,
                    target |-> target,
                    radiusMeters |-> radiusMeters,
                    outcome |-> "returned",
                    result |-> isWithinRadius(currentLocation,
                                              target.latitude,
                                              target.longitude,
                                              radiusMeters)]
    /\ UNCHANGED <<currentLocation, lastKnownLocation, outsideVars>>

\* A component calls the hook's getDistanceTo.
CallGetDistanceTo ==
    /\ call = NoCall
    /\ \E target \in Coords :
           call' = [op |-> "getDistanceTo",
                    user |-> currentLocation,
                    target |-> target,
                    outcome |-> "returned",
                    result |-> getDistanceTo(currentLocation, target.latitude,
                                             target.longitude)]
    /\ UNCHANGED <<currentLocation, lastKnownLocation, outsideVars>>

\* The client's sample at currentLocation is reported and evaluated with the
\* context the caller supplies.
CallEvaluateReport ==
    /\ call = NoCall
    /\ currentLocation # Null
    /\ \E timestamp \in ReportTimes, mocked \in BOOLEAN,
          previousReport \in PreviousReports,
          recentReportsToday \in 0..MaxReportsToday,
          recentArtifactPlacements \in PlacementSeqs :
           LET report == [coordinate |-> currentLocation,
                          timestamp |-> timestamp,
                          is_mocked |-> mocked]
           IN  call' = [op |-> "evaluateReport",
                        report |-> report,
                        previousReport |-> previousReport,
                        recentReportsToday |-> recentReportsToday,
                        recentArtifactPlacements |-> recentArtifactPlacements,
                        result |-> evaluateReport(report, previousReport,
                                                  recentReportsToday,
                                                  recentArtifactPlacements)]
    /\ UNCHANGED <<currentLocation, lastKnownLocation, outsideVars>>

\* A GPS point of the batch is mapped to its chunk.
CallChunkOf ==
    /\ call = NoCall
    /\ \E coord \in ChunkCoords :
           call' = [op |-> "chunkOf",
                    coordinate |-> coord,
                    outcome |-> "returned",
                    result |-> chunkOf(coord)]
    /\ UNCHANGED <<currentLocation, lastKnownLocation, outsideVars>>

\* The caller has used the transient result.
Discard ==
    /\ call # NoCall
    /\ call' = NoCall
    /\ UNCHANGED <<currentLocation, lastKnownLocation, outsideVars>>

\* The position watcher's callback stores a new position; it runs whenever
\* the device reports one, also while a component holds a result.
positionUpdate ==
    /\ \E coords \in ValidCoords :
           /\ currentLocation' = coords
           /\ lastKnownLocation' = coords
    /\ UNCHANGED <<call, outsideVars>>

\* The component that holds a result calls the helper again with the
\* arguments of its last call.
CallAgain ==
    /\ call # NoCall
    /\ call.op \in {"isWithinRadius", "getDistanceTo", "chunkOf"}
    /\ call' =
         CASE call.op = "isWithinRadius" ->
                [call EXCEPT !.user = currentLocation,
                             !.result = isWithinRadius(currentLocation,
                                                       call.target.latitude,
                                                       call.target.longitude,
                                                       call.radiusMeters)]
           [] call.op = "getDistanceTo" ->
                [call EXCEPT !.user = currentLocation,
                             !.result = getDistanceTo(currentLocation,
                                                      call.target.latitude,
                                                      call.target.longitude)]
           [] call.op = "chunkOf" ->
                [call EXCEPT !.result = chunkOf(call.coordinate)]
    /\ UNCHANGED <<currentLocation, lastKnownLocation, outsideVars>>

Next ==
    \/ setLocation
    \/ CallIsWithinRadius
    \/ CallGetDistanceTo
    \/ CallEvaluateReport
    \/ CallChunkOf
    \/ Discard

Spec == Init /\ [][Next]_vars

\* The hook's helpers called again and again while the location changes.
NextHook ==
    \/ setLocation
    \/ positionUpdate
    \/ CallIsWithinRadius
    \/ CallGetDistanceTo
    \/ CallChunkOf
    \/ CallAgain
    \/ Discard

SpecHook == Init /\ [][NextHook]_vars

(***************************************************************************)
(* The location service serving several requests at once.  Each request    *)
(* passes the evaluator its report and the reporter's data as they are in  *)
(* the ledger at that moment; the ledger is written by the caller only.    *)
(***************************************************************************)
\* The places the reports come from; a report is stamped one second after
\* the reporter's last persisted report.
ServiceCoords == {Home, East25, NorthEast}

ServiceReport(coordinate) ==
    [coordinate |-> coordinate,
     timestamp |-> Num(ledger.recentReportsToday + 1),
     is_mocked |-> FALSE]

\* The caller passes the report and the data it owns as parameters.
BeginEvaluate(t) ==
    /\ pending[t].pc = "idle"
    /\ \E coordinate \in ServiceCoords :
           pending' = [pending EXCEPT ![t] =
               [pc |-> "running",
                report |-> ServiceReport(coordinate),
                previousReport |-> ledger.previousReport,
                recentReportsToday |-> ledger.recentReportsToday,
                recentArtifactPlacements |-> ledger.recentArtifactPlacements]]
    /\ UNCHANGED <<ledger, hookVars, authVars, watchVars, bannerVars>>

\* An evaluator that reads the reporter's data from shared state when it
\* finishes instead of using the parameters it was given.
ReturnEvaluateShared(t) ==
    /\ pending[t].pc = "running"
    /\ pending' = [pending EXCEPT ![t] =
           [pc |-> "returned",
            report |-> pending[t].report,
            previousReport |-> pending[t].previousReport,
            recentReportsToday |-> pending[t].recentReportsToday,
            recentArtifactPlacements |-> pending[t].recentArtifactPlacements,
            result |-> evaluateReport(pending[t].report,
                                      ledger.previousReport,
                                      ledger.recentReportsToday,
                                      ledger.recentArtifactPlacements)]]
    /\ UNCHANGED <<ledger, hookVars, authVars, watchVars, bannerVars>>

\* The evaluator returns its verdict, computed from its parameters.
ReturnEvaluate(t) ==
    /\ pending[t].pc = "running"
    /\ pending' = [pending EXCEPT ![t] =
           [pc |-> "returned",
            report |-> pending[t].report,
            previousReport |-> pending[t].previousReport,
            recentReportsToday |-> pending[t].recentReportsToday,
            recentArtifactPlacements |-> pending[t].recentArtifactPlacements,
            result |-> evaluateReport(pending[t].report,
                                      pending[t].previousReport,
                                      pending[t].recentReportsToday,
                                      pending[t].recentArtifactPlacements)]]
    /\ UNCHANGED <<ledger, hookVars, authVars, watchVars, bannerVars>>

\* The placements with one more, the oldest dropped beyond MaxPlacements.
RecentPlacements(placements, coordinate) ==
    IF Len(placements) < MaxPlacements THEN Append(placements, coordinate)
    ELSE Append(Tail(placements), coordinate)

\* The caller persists a report that was not flagged, and drops a flagged one.
Settle(t) ==
    /\ pending[t].pc = "returned"
    /\ pending' = [pending EXCEPT ![t] = Idle]
    /\ IF pending[t].result.flagged
            \/ ledger.recentReportsToday >= MaxReportsToday
       THEN UNCHANGED ledger
       ELSE ledger' =
              [recentReportsToday |-> ledger.recentReportsToday + 1,
               previousReport |-> pending[t].report,
               recentArtifactPlacements |->
                   RecentPlacements(ledger.recentArtifactPlacements,
                                    pending[t].report.coordinate)]
    /\ UNCHANGED <<hookVars, authVars, watchVars, bannerVars>>

NextService ==
    \E t \in Callers :
        \/ BeginEvaluate(t)
        \/ ReturnEvaluate(t)
        \/ Settle(t)

SpecService == Init /\ [][NextService]_vars

(***************************************************************************)
(* API service: the axios instance with its auth interceptors, and the     *)
(* auth store.  Every await of the code ends a step.                       *)
(***************************************************************************)
otherThanAuth == <<hookVars, serviceVars, watchVars, bannerVars>>

\* url.includes(endpoint), on paths split at "/".
includes(path, endpoint) ==
    \E i \in 1..Len(path) :
        /\ i + Len(endpoint) - 1 <= Len(path)
        /\ SubSeq(path, i, i + Len(endpoint) - 1) = endpoint

\* isAuthRequest that takes no request for an auth request.
isAuthRequestNever(path) == FALSE

\* const isAuthRequest = authEndpoints.some(endpoint =>
\*     originalRequest.url?.includes(endpoint))
isAuthRequest(path) == \E endpoint \in authEndpoints : includes(path, endpoint)

\* A token the server has not issued before.
TokensInUse ==
    {secureStore.access_token, secureStore.refresh_token}
    \cup {requests[r].authorization : r \in Requests}
    \cup {requests[r].data : r \in Requests}

FreshToken == 1 + CHOOSE t \in TokensInUse : \A u \in TokensInUse : u <= t

\* RootNavigator: the main screens are mounted when the store says the user
\* is authenticated, the auth screens when it says they are not.
MainMounted == ~authStore.isLoading /\ authStore.isAuthenticated

AuthMounted == ~authStore.isLoading /\ ~authStore.isAuthenticated

\* A screen makes a request through the axios instance: api(config).
issue(r) ==
    /\ requests[r].pc = "idle"
    /\ IF r = "auth" THEN AuthMounted ELSE MainMounted
    /\ \E path \in urls(r) :
           requests' = [requests EXCEPT ![r].pc = "sending", ![r].url = path]
    /\ UNCHANGED <<isRefreshing, failedQueue, secureStore, authStore, authOp>>
    /\ UNCHANGED otherThanAuth

\* REQUEST INTERCEPTOR: adds the stored access token, when there is one, and
\* the request goes out.
requestInterceptor(r) ==
    /\ requests[r].pc = "sending"
    /\ requests' = [requests EXCEPT
           ![r].pc = "sent",
           ![r].authorization =
               IF secureStore.access_token # 0
               THEN secureStore.access_token ELSE @]
    /\ UNCHANGED <<isRefreshing, failedQueue, secureStore, authStore, authOp>>
    /\ UNCHANGED otherThanAuth

\* RESPONSE INTERCEPTOR, success: the response goes to the caller.  An
\* AuthResponse (login, register) carries new tokens.
responseSuccess(r) ==
    /\ requests[r].pc = "sent"
    /\ requests' = [requests EXCEPT
           ![r].pc = "resolved",
           ![r].status = "200",
           ![r].data =
               IF requests[r].url \in {<<"auth", "login">>, <<"auth", "register">>}
               THEN FreshToken ELSE 0]
    /\ UNCHANGED <<isRefreshing, failedQueue, secureStore, authStore, authOp>>
    /\ UNCHANGED otherThanAuth

\* processQueue(error, token) applied to the requests: every queued promise
\* is rejected with the error, or resolved with the token, and then its
\* request is sent again with that token.
processQueue(error, token) ==
    [q \in Requests |->
        IF \E i \in 1..Len(failedQueue) : failedQueue[i] = q
        THEN IF error
             THEN [requests[q] EXCEPT !.pc = "rejected",
                                      !.status = "refreshError"]
             ELSE [requests[q] EXCEPT !.pc = "sending",
                                      !.authorization = token,
                                      !.replays = @ + 1]
        ELSE requests[q]]

\* responseError that starts a refresh without raising isRefreshing.
responseErrorNoFlag(r, status) ==
    /\ requests[r].pc = "sent"
    /\ IF status = "401" /\ ~requests[r]._retry /\ ~isAuthRequest(requests[r].url)
       THEN IF isRefreshing
            THEN /\ failedQueue' = Append(failedQueue, r)
                 /\ requests' = [requests EXCEPT ![r].pc = "queued",
                                                 ![r].status = status]
                 /\ UNCHANGED isRefreshing
            ELSE /\ requests' = [requests EXCEPT ![r]._retry = TRUE,
                                                 ![r].pc = "getRefreshToken",
                                                 ![r].status = status]
                 /\ UNCHANGED <<isRefreshing, failedQueue>>
       ELSE /\ requests' = [requests EXCEPT ![r].pc = "rejected",
                                            ![r].status = status]
            /\ UNCHANGED <<isRefreshing, failedQueue>>
    /\ UNCHANGED <<secureStore, authStore, authOp>>
    /\ UNCHANGED otherThanAuth

\* RESPONSE INTERCEPTOR, error: a 401 of a request that is no auth request
\* and was not retried is queued while a refresh runs, and starts the refresh
\* otherwise (up to the first await); every other error is rejected.
responseError(r, status) ==
    /\ requests[r].pc = "sent"
    /\ IF status = "401" /\ ~requests[r]._retry /\ ~isAuthRequest(requests[r].url)
       THEN IF isRefreshing
            THEN /\ failedQueue' = Append(failedQueue, r)
                 /\ requests' = [requests EXCEPT ![r].pc = "queued",
                                                 ![r].status = status]
                 /\ UNCHANGED isRefreshing
            ELSE /\ requests' = [requests EXCEPT ![r]._retry = TRUE,
                                                 ![r].pc = "getRefreshToken",
                                                 ![r].status = status]
                 /\ isRefreshing' = TRUE
                 /\ UNCHANGED failedQueue
       ELSE /\ requests' = [requests EXCEPT ![r].pc = "rejected",
                                            ![r].status = status]
            /\ UNCHANGED <<isRefreshing, failedQueue>>
    /\ UNCHANGED <<secureStore, authStore, authOp>>
    /\ UNCHANGED otherThanAuth

\* catch (refreshError): processQueue(refreshError, null), then the first
\* deleteItemAsync is awaited.
refreshCaught(r) ==
    /\ requests' = [processQueue(TRUE, 0) EXCEPT ![r].pc = "deleteAccessToken",
                                                 ![r].status = "refreshError"]
    /\ failedQueue' = <<>>
    /\ UNCHANGED <<isRefreshing, secureStore, authStore, authOp>>

\* The refresh token was read: without one the refresh fails, with one the
\* refresh endpoint is called.
getRefreshToken(r) ==
    /\ requests[r].pc = "getRefreshToken"
    /\ IF secureStore.refresh_token = 0
       THEN refreshCaught(r)
       ELSE /\ requests' = [requests EXCEPT ![r].pc = "postRefresh"]
            /\ UNCHANGED <<isRefreshing, failedQueue, secureStore, authStore,
                           authOp>>
    /\ UNCHANGED otherThanAuth

\* The refresh endpoint answers: with a new access token, which is then
\* stored, or with an error.
refreshResponse(r) ==
    /\ requests[r].pc = "postRefresh"
    /\ \/ /\ requests' = [requests EXCEPT ![r].pc = "setAccessToken",
                                          ![r].data = FreshToken]
          /\ UNCHANGED <<isRefreshing, failedQueue, secureStore, authStore,
                         authOp>>
       \/ refreshCaught(r)
    /\ UNCHANGED otherThanAuth

\* The end of the try block: processQueue(null, access_token), the original
\* request is sent again with the new token, and finally isRefreshing = false.
refreshed(r) ==
    /\ requests' = [processQueue(FALSE, requests[r].data) EXCEPT
           ![r].pc = "sending",
           ![r].authorization = requests[r].data,
           ![r].replays = @ + 1]
    /\ failedQueue' = <<>>
    /\ isRefreshing' = FALSE

\* The new access token is stored; a new refresh token, when the response
\* has one, is stored next.
setAccessToken(r) ==
    /\ requests[r].pc = "setAccessToken"
    /\ secureStore' = [secureStore EXCEPT !.access_token = requests[r].data]
    /\ \/ /\ requests' = [requests EXCEPT ![r].pc = "setRefreshToken"]
          /\ UNCHANGED <<isRefreshing, failedQueue>>
       \/ refreshed(r)
    /\ UNCHANGED <<authStore, authOp>>
    /\ UNCHANGED otherThanAuth

setRefreshToken(r) ==
    /\ requests[r].pc = "setRefreshToken"
    /\ secureStore' = [secureStore EXCEPT !.refresh_token = requests[r].data]
    /\ refreshed(r)
    /\ UNCHANGED <<authStore, authOp>>
    /\ UNCHANGED otherThanAuth

\* Refresh failed - clear tokens: the three deleteItemAsync, then the
\* request is rejected and finally isRefreshing = false.
deleteAccessToken(r) ==
    /\ requests[r].pc = "deleteAccessToken"
    /\ secureStore' = [secureStore EXCEPT !.access_token = 0]
    /\ requests' = [requests EXCEPT ![r].pc = "deleteRefreshToken"]
    /\ UNCHANGED <<isRefreshing, failedQueue, authStore, authOp>>
    /\ UNCHANGED otherThanAuth

deleteRefreshToken(r) ==
    /\ requests[r].pc = "deleteRefreshToken"
    /\ secureStore' = [secureStore EXCEPT !.refresh_token = 0]
    /\ requests' = [requests EXCEPT ![r].pc = "deleteUser"]
    /\ UNCHANGED <<isRefreshing, failedQueue, authStore, authOp>>
    /\ UNCHANGED otherThanAuth

deleteUser(r) ==
    /\ requests[r].pc = "deleteUser"
    /\ secureStore' = [secureStore EXCEPT !.user = 0]
    /\ requests' = [requests EXCEPT ![r].pc = "rejected"]
    /\ isRefreshing' = FALSE
    /\ UNCHANGED <<failedQueue, authStore, authOp>>
    /\ UNCHANGED otherThanAuth

\* loadStoredAuth, on app start: the three items are read one by one, then
\* the store is set.
loadStoredAuth ==
    /\ \/ /\ authOp = NoAuthOp
          /\ authStore.isLoading
          /\ authOp' = [op |-> "loadStoredAuth", pc |-> "access_token",
                        accessToken |-> 0, refreshToken |-> 0]
          /\ UNCHANGED authStore
       \/ /\ authOp.op = "loadStoredAuth"
          /\ authOp.pc = "access_token"
          /\ authOp' = [authOp EXCEPT !.pc = "refresh_token",
                                      !.accessToken = secureStore.access_token]
          /\ UNCHANGED authStore
       \/ /\ authOp.op = "loadStoredAuth"
          /\ authOp.pc = "refresh_token"
          /\ authOp' = [authOp EXCEPT !.pc = "user",
                                      !.refreshToken = secureStore.refresh_token]
          /\ UNCHANGED authStore
       \/ /\ authOp.op = "loadStoredAuth"
          /\ authOp.pc = "user"
          /\ authOp' = NoAuthOp
          /\ authStore' =
                IF authOp.accessToken # 0 /\ authOp.refreshToken # 0
                   /\ secureStore.user # 0
                THEN [user |-> 1, tokens |-> 1,
                      isAuthenticated |-> TRUE, isLoading |-> FALSE]
                ELSE [authStore EXCEPT !.isLoading = FALSE]
    /\ UNCHANGED <<isRefreshing, failedQueue, requests, secureStore>>
    /\ UNCHANGED otherThanAuth

\* The auth screen, after its request resolved with an AuthResponse:
\* login(user, tokens) stores the three items one by one, then sets the store.
login ==
    /\ \/ /\ authOp = NoAuthOp
          /\ requests["auth"].pc = "resolved"
          /\ requests["auth"].data # 0
          /\ authOp' = [op |-> "login", pc |-> "access_token",
                        token |-> requests["auth"].data]
          /\ requests' = [requests EXCEPT !["auth"].pc = "done"]
          /\ UNCHANGED <<secureStore, authStore>>
       \/ /\ authOp.op = "login"
          /\ authOp.pc = "access_token"
          /\ secureStore' = [secureStore EXCEPT !.access_token = authOp.token]
          /\ authOp' = [authOp EXCEPT !.pc = "refresh_token"]
          /\ UNCHANGED <<requests, authStore>>
       \/ /\ authOp.op = "login"
          /\ authOp.pc = "refresh_token"
          /\ secureStore' = [secureStore EXCEPT !.refresh_token = authOp.token]
          /\ authOp' = [authOp EXCEPT !.pc = "user"]
          /\ UNCHANGED <<requests, authStore>>
       \/ /\ authOp.op = "login"
          /\ authOp.pc = "user"
          /\ secureStore' = [secureStore EXCEPT !.user = 1]
          /\ authOp' = NoAuthOp
          /\ authStore' = [user |-> 1, tokens |-> 1,
                           isAuthenticated |-> TRUE, isLoading |-> FALSE]
          /\ UNCHANGED requests
    /\ UNCHANGED <<isRefreshing, failedQueue>>
    /\ UNCHANGED otherThanAuth

\* authService.logout has completed: its POST /auth/logout was answered, and
\* a failure of it was caught.
ServerLogoutCompleted ==
    /\ requests["me"].url = <<"auth", "logout">>
    /\ requests["me"].pc \in {"resolved", "rejected"}

\* Sign Out: logout() deletes the three items one by one, then sets the store.
\* The operation keeps whether authService.logout had completed when it
\* was called.
logout ==
    /\ \/ /\ authOp = NoAuthOp
          /\ MainMounted
          /\ authOp' = [op |-> "logout", pc |-> "access_token",
                        afterServerLogout |-> ServerLogoutCompleted]
          /\ UNCHANGED <<secureStore, authStore>>
       \/ /\ authOp.op = "logout"
          /\ authOp.pc = "access_token"
          /\ secureStore' = [secureStore EXCEPT !.access_token = 0]
          /\ authOp' = [authOp EXCEPT !.pc = "refresh_token"]
          /\ UNCHANGED authStore
       \/ /\ authOp.op = "logout"
          /\ authOp.pc = "refresh_token"
          /\ secureStore' = [secureStore EXCEPT !.refresh_token = 0]
          /\ authOp' = [authOp EXCEPT !.pc = "user"]
          /\ UNCHANGED authStore
       \/ /\ authOp.op = "logout"
          /\ authOp.pc = "user"
          /\ secureStore' = [secureStore EXCEPT !.user = 0]
          /\ authOp' = NoAuthOp
          /\ authStore' = [authStore EXCEPT !.user = 0, !.tokens = 0,
                                             !.isAuthenticated = FALSE]
    /\ UNCHANGED <<isRefreshing, failedQueue, requests>>
    /\ UNCHANGED otherThanAuth

\* The app starts with or without the items of an earlier session.
InitAuth ==
    /\ currentLocation = Null
    /\ lastKnownLocation = Null
    /\ call = NoCall
    /\ InitService
    /\ InitApi
    /\ InitWatch
    /\ InitBanner
    /\ secureStore \in {EmptyStore, StoredSession}

NextAuth ==
    \/ \E r \in Requests :
          \/ issue(r)
          \/ requestInterceptor(r)
          \/ responseSuccess(r)
          \/ \E status \in {"401", "500"} : responseError(r, status)
          \/ getRefreshToken(r)
          \/ refreshResponse(r)
          \/ setAccessToken(r)
          \/ setRefreshToken(r)
          \/ deleteAccessToken(r)
          \/ deleteRefreshToken(r)
          \/ deleteUser(r)
    \/ loadStoredAuth
    \/ login
    \/ logout

SpecAuth == InitAuth /\ [][NextAuth]_vars

(***************************************************************************)
(* The location watch: watchLocation, stopWatching and reset of the        *)
(* location store, and the mount effect of useLocation.  Every await ends  *)
(* a step.                                                                 *)
(***************************************************************************)
otherThanWatch == <<call, serviceVars, authVars, bannerVars>>

InitThread == "initializeLocation"

\* The position fixes getCurrentPositionAsync resolves with.
PositionFixes == {Home, North01}

\* The try block of watchLocation up to its await: an existing subscription
\* is removed (the variable keeps it), and watchPositionAsync is called.
watchTry(t) ==
    /\ subscriptions' =
           [subscriptions EXCEPT !.active = @ \ {locationSubscription}]
    /\ threads' = [threads EXCEPT ![t] = [pc |-> "watchPositionAsync",
                                          fn |-> "watchLocation",
                                          autoWatch |-> FALSE]]

\* watchLocation from its first line to its first await or return, with the
\* permission status the store has at that moment.
watchLocationCalled(t, permission) ==
    IF isWatching
    THEN /\ threads' = [threads EXCEPT ![t] = Idle]
         /\ UNCHANGED subscriptions
    ELSE IF permission # "granted"
         THEN /\ threads' =
                    [threads EXCEPT ![t] = [pc |-> "getForegroundPermissionsAsync",
                                            fn |-> "watchLocation",
                                            autoWatch |-> FALSE]]
              /\ UNCHANGED subscriptions
         ELSE watchTry(t)

\* The tracking button, or any other caller of the store: watchLocation().
watchLocation(t) ==
    /\ t # InitThread
    /\ threads[t].pc = "idle"
    /\ watchLocationCalled(t, permissionStatus)
    /\ UNCHANGED <<permissionStatus, isWatching, locationSubscription,
                   component>>
    /\ UNCHANGED <<currentLocation, lastKnownLocation, otherThanWatch>>

\* requestPermission has returned to the function that awaited it:
\* watchLocation goes on to its try block, initializeLocation to
\* getCurrentLocation, which finds the permission granted and awaits the fix.
requestPermissionReturned(t, granted) ==
    IF ~granted
    THEN /\ threads' = [threads EXCEPT ![t] = Idle]
         /\ UNCHANGED subscriptions
    ELSE IF threads[t].fn = "watchLocation"
         THEN watchTry(t)
         ELSE /\ threads' =
                    [threads EXCEPT ![t].pc = "getCurrentPositionAsync"]
              /\ UNCHANGED subscriptions

\* requestPermission, first await: the existing status is granted (stored,
\* return true), or not (the permission is requested), or the call throws
\* (return false).
getForegroundPermissions(t) ==
    /\ threads[t].pc = "getForegroundPermissionsAsync"
    /\ \E existingStatus \in {"granted", "undetermined", "throws"} :
          CASE existingStatus = "granted" ->
                 /\ permissionStatus' = "granted"
                 /\ requestPermissionReturned(t, TRUE)
            [] existingStatus = "undetermined" ->
                 /\ threads' = [threads EXCEPT
                        ![t].pc = "requestForegroundPermissionsAsync"]
                 /\ UNCHANGED <<permissionStatus, subscriptions>>
            [] existingStatus = "throws" ->
                 /\ requestPermissionReturned(t, FALSE)
                 /\ UNCHANGED permissionStatus
    /\ UNCHANGED <<isWatching, locationSubscription, component>>
    /\ UNCHANGED <<currentLocation, lastKnownLocation, otherThanWatch>>

\* requestPermission, second await: the status the user chose is stored.
requestForegroundPermissions(t) ==
    /\ threads[t].pc = "requestForegroundPermissionsAsync"
    /\ \E answer \in {"granted", "denied"} :
          /\ permissionStatus' = answer
          /\ requestPermissionReturned(t, answer = "granted")
    /\ UNCHANGED <<isWatching, locationSubscription, component>>
    /\ UNCHANGED <<currentLocation, lastKnownLocation, otherThanWatch>>

\* getCurrentLocation of initializeLocation: the fix is stored, or the call
\* failed; then, if (autoWatch), watchLocation is called.
getCurrentPosition(t) ==
    /\ threads[t].pc = "getCurrentPositionAsync"
    /\ \/ \E coords \in PositionFixes :
             /\ currentLocation' = coords
             /\ lastKnownLocation' = coords
       \/ UNCHANGED <<currentLocation, lastKnownLocation>>
    /\ IF threads[t].autoWatch
       THEN watchLocationCalled(t, permissionStatus)
       ELSE /\ threads' = [threads EXCEPT ![t] = Idle]
            /\ UNCHANGED subscriptions
    /\ UNCHANGED <<permissionStatus, isWatching, locationSubscription,
                   component>>
    /\ UNCHANGED otherThanWatch

\* watchPositionAsync resolves with a new subscription, which is assigned to
\* locationSubscription, and isWatching is set; or it rejects.
watchPosition(t) ==
    /\ threads[t].pc = "watchPositionAsync"
    /\ \/ /\ subscriptions.created < MaxSubscriptions
          /\ subscriptions' =
                 [created |-> subscriptions.created + 1,
                  active |-> subscriptions.active
                                 \cup {subscriptions.created + 1}]
          /\ locationSubscription' = subscriptions.created + 1
          /\ isWatching' = TRUE
       \/ UNCHANGED <<subscriptions, locationSubscription, isWatching>>
    /\ threads' = [threads EXCEPT ![t] = Idle]
    /\ UNCHANGED <<permissionStatus, component>>
    /\ UNCHANGED <<currentLocation, lastKnownLocation, otherThanWatch>>

\* if (locationSubscription) { remove(); locationSubscription = null }
removeSubscription ==
    /\ subscriptions' =
           [subscriptions EXCEPT !.active = @ \ {locationSubscription}]
    /\ locationSubscription' = 0

\* Stop watching location
stopWatching ==
    /\ removeSubscription
    /\ isWatching' = FALSE
    /\ UNCHANGED <<permissionStatus, threads, component>>
    /\ UNCHANGED <<currentLocation, lastKnownLocation, otherThanWatch>>

\* Reset store
reset ==
    /\ removeSubscription
    /\ isWatching' = FALSE
    /\ permissionStatus' = "null"
    /\ currentLocation' = Null
    /\ lastKnownLocation' = Null
    /\ UNCHANGED <<threads, component>>
    /\ UNCHANGED otherThanWatch

\* A component that uses useLocation mounts: its effect keeps the isWatching
\* of the first render for the cleanup, and if (autoRequest) starts
\* initializeLocation, which awaits requestPermission.
mount ==
    /\ ~component.mounted
    /\ threads[InitThread].pc = "idle"
    /\ \E autoRequest \in BOOLEAN, autoWatch \in BOOLEAN :
          /\ component' = [mounted |-> TRUE, autoRequest |-> autoRequest,
                           autoWatch |-> autoWatch, isWatching |-> isWatching]
          /\ threads' =
                 IF autoRequest
                 THEN [threads EXCEPT ![InitThread] =
                          [pc |-> "getForegroundPermissionsAsync",
                           fn |-> "initializeLocation",
                           autoWatch |-> autoWatch]]
                 ELSE threads
    /\ UNCHANGED <<permissionStatus, isWatching, locationSubscription,
                   subscriptions>>
    /\ UNCHANGED <<currentLocation, lastKnownLocation, otherThanWatch>>

\* The component unmounts: the cleanup of the mount effect runs,
\* if (isWatching) stopWatching(), on the isWatching the effect kept.
unmount ==
    /\ component.mounted
    /\ component' = Unmounted
    /\ IF component.isWatching
       THEN /\ removeSubscription
            /\ isWatching' = FALSE
       ELSE UNCHANGED <<subscriptions, locationSubscription, isWatching>>
    /\ UNCHANGED <<permissionStatus, threads>>
    /\ UNCHANGED <<currentLocation, lastKnownLocation, otherThanWatch>>

NextWatch ==
    \/ \E t \in Threads :
          \/ watchLocation(t)
          \/ getForegroundPermissions(t)
          \/ requestForegroundPermissions(t)
          \/ getCurrentPosition(t)
          \/ watchPosition(t)
    \/ stopWatching
    \/ reset
    \/ mount
    \/ unmount

SpecWatch == Init /\ [][NextWatch]_vars

(***************************************************************************)
(* OfflineBanner with useNetworkStatus.  A change of isConnected is        *)
(* followed by the render and the effect of the banner in the same step.   *)
(***************************************************************************)
otherThanBanner == <<hookVars, serviceVars, authVars, watchVars>>

MaxTimeouts == 2

\* The states NetInfo reports: the connection type, and whether the
\* internet is reachable ("null": not known yet).
NetInfoStates ==
    [type : {"wifi", "cellular"}, isInternetReachable : {"true", "false", "null"}]
    \cup [type : {"none"}, isInternetReachable : {"false"}]

\* The callback of a timing animation that ended or was stopped by the start
\* of another animation: setShowReconnected(false); wasOffline.current = false.
\* Without one, the values given stay.
timingEnded(shown, offline) ==
    IF slideAnim.animation = "timing"
    THEN /\ showReconnected' = FALSE
         /\ wasOffline' = FALSE
    ELSE /\ showReconnected' = shown
         /\ wasOffline' = offline

\* The effect on [isConnected]: offline, the banner springs into view;
\* back online after having been offline, "Back online!" is shown and the
\* slide out is set to start after 2000 ms.
effect(isConnected) ==
    IF ~isConnected
    THEN /\ slideAnim' = [toValue |-> 0, animation |-> "spring"]
         /\ timingEnded(showReconnected, TRUE)
         /\ UNCHANGED timeouts
    ELSE IF wasOffline
         THEN /\ showReconnected' = TRUE
              /\ timeouts' = timeouts + 1
              /\ UNCHANGED <<wasOffline, slideAnim>>
         ELSE UNCHANGED <<showReconnected, wasOffline, slideAnim, timeouts>>

\* NetInfo reports a state (the listener, or the initial fetch): setStatus,
\* and when isConnected changed the effect runs.
netInfoState ==
    /\ \E state \in NetInfoStates :
          /\ networkStatus' = [isConnected |-> state.type # "none",
                               isInternetReachable |-> state.isInternetReachable,
                               connectionType |-> state.type,
                               isWifi |-> state.type = "wifi"]
          /\ networkStatus' # networkStatus
          /\ (state.type # "none" /\ ~networkStatus.isConnected /\ wasOffline)
                => timeouts < MaxTimeouts
          /\ IF (state.type # "none") # networkStatus.isConnected
             THEN effect(state.type # "none")
             ELSE UNCHANGED <<showReconnected, wasOffline, slideAnim, timeouts>>
    /\ UNCHANGED otherThanBanner

\* A timeout fires after its 2000 ms: the banner starts to slide out, which
\* stops the animation that was running.
timeout ==
    /\ timeouts > 0
    /\ timeouts' = timeouts - 1
    /\ slideAnim' = [toValue |-> -50, animation |-> "timing"]
    /\ timingEnded(showReconnected, wasOffline)
    /\ UNCHANGED networkStatus
    /\ UNCHANGED otherThanBanner

\* The running animation reaches its value.
animationEnd ==
    /\ slideAnim.animation # "none"
    /\ slideAnim' = [slideAnim EXCEPT !.animation = "none"]
    /\ timingEnded(showReconnected, wasOffline)
    /\ UNCHANGED <<networkStatus, timeouts>>
    /\ UNCHANGED otherThanBanner

\* if (isConnected && !showReconnected) return null
rendered == ~(networkStatus.isConnected /\ ~showReconnected)

\* {isConnected ? "Back online!" : "No internet connection"}
text ==
    IF networkStatus.isConnected
    THEN "Back online!" ELSE "No internet connection"

NextBanner ==
    \/ netInfoState
    \/ timeout
    \/ animationEnd

SpecBanner == Init /\ [][NextBanner]_vars

(***************************************************************************)
(* Properties.                                                             *)
(***************************************************************************)
\* An isWithinRadius call made with a user location, both coordinates in range.
WithinRadiusCalled ==
    /\ call.op = "isWithinRadius"
    /\ call.user # Null
    /\ IsValidCoordinate(call.user)
    /\ IsValidCoordinate(call.target)

\* An evaluateReport call whose coordinates are all in range.
ReportEvaluated ==
    /\ call.op = "evaluateReport"
    /\ ~hasInvalidCoordinate(call.report, call.previousReport,
                             call.recentArtifactPlacements)

\* The set of the coordinates of a sequence of placements.
PlacementSet(placements) == {placements[i] : i \in 1..Len(placements)}

\* C1: with a positive radius isWithinRadius returns true exactly when
\* distanceMeters(user, target) <= radiusMeters: true when the distance is
\* below the radius or equal to it, false when it is larger.
C1_WithinRadiusInclusive ==
    (WithinRadiusCalled /\ Lt(Zero, call.radiusMeters)) =>
        /\ call.outcome = "returned"
        /\ Lt(distanceMeters(call.user, call.target), call.radiusMeters)
               => call.result = TRUE
        /\ NumEq(distanceMeters(call.user, call.target), call.radiusMeters)
               => call.result = TRUE
        /\ Lt(call.radiusMeters, distanceMeters(call.user, call.target))
               => call.result = FALSE

\* C1 witness: a call whose distance (about 15 m) equals the radius exactly.
C1_Witness ==
    /\ WithinRadiusCalled
    /\ call.user = Home
    /\ call.target = North15
    /\ Lt(Num(15), call.radiusMeters)
    /\ NumEq(distanceMeters(call.user, call.target), call.radiusMeters)
    /\ call.result = TRUE

\* C2: isWithinRadius fails with InvalidRadius whenever radiusMeters is zero
\* or negative, whatever the two coordinates, and returns no verdict then.
C2_NonPositiveRadiusFails ==
    (WithinRadiusCalled /\ Le(call.radiusMeters, Zero)) =>
        call.outcome = "InvalidRadius"

\* C3: a report with is_mocked = true always has MOCKED among the reasons and
\* is flagged, whatever the other arguments; a report with is_mocked = false
\* never has MOCKED.
C3_MockedAlwaysReported ==
    ReportEvaluated =>
        /\ call.result.outcome = "returned"
        /\ call.report.is_mocked =>
               ("MOCKED" \in call.result.reasons /\ call.result.flagged)
        /\ ~call.report.is_mocked => "MOCKED" \notin call.result.reasons

\* C3 witness: a mocked report that triggers no other check is flagged MOCKED.
C3_Witness ==
    /\ ReportEvaluated
    /\ call.report.is_mocked
    /\ call.previousReport # Null
    /\ call.recentReportsToday = 0
    /\ Len(call.recentArtifactPlacements) = 2
    /\ call.result.reasons = {"MOCKED"}
    /\ call.result.flagged

\* Whether the speed from the previous report to the report, distance /
\* max(elapsed, epsilon), is strictly above 5000 m/s.
SpeedAbove5000(report, previousReport) ==
    IF Lt(Zero, Sub(report.timestamp, previousReport.timestamp))
    THEN Lt(Num(5000),
            Div(distanceMeters(previousReport.coordinate, report.coordinate),
                Sub(report.timestamp, previousReport.timestamp)))
    ELSE Lt(Zero, distanceMeters(previousReport.coordinate, report.coordinate))

\* C4: IMPOSSIBLE_SPEED is among the reasons exactly when there is a previous
\* report and the speed from it is strictly above 5000 m/s: 10 km in 1 s is
\* reported, a speed of exactly 5000 m/s is not, 0.1 m in 1 s is not, and
\* without a previous report it is never reported.
C4_ImpossibleSpeedIffAbove5000 ==
    ReportEvaluated =>
        /\ "IMPOSSIBLE_SPEED" \in call.result.reasons <=>
               /\ call.previousReport # Null
               /\ SpeedAbove5000(call.report, call.previousReport)
        /\ ( /\ call.previousReport # Null
             /\ call.report.coordinate = Home
             /\ call.previousReport.coordinate = North10km
             /\ call.previousReport.timestamp = Zero
             /\ call.report.timestamp = Num(1) )
               => "IMPOSSIBLE_SPEED" \in call.result.reasons
        /\ ( /\ call.previousReport # Null
             /\ call.report.coordinate = Home
             /\ call.previousReport.coordinate = North01
             /\ call.previousReport.timestamp = Zero
             /\ call.report.timestamp = Num(1) )
               => "IMPOSSIBLE_SPEED" \notin call.result.reasons
        /\ ( /\ call.previousReport # Null
             /\ Lt(Zero, call.report.timestamp)
             /\ call.previousReport.timestamp = Zero
             /\ NumEq(Div(distanceMeters(call.previousReport.coordinate,
                                         call.report.coordinate),
                          call.report.timestamp),
                      Num(5000)) )
               => "IMPOSSIBLE_SPEED" \notin call.result.reasons

\* C4 witness: a report 10 km from the previous one at exactly 5000 m/s.
C4_Witness ==
    /\ ReportEvaluated
    /\ call.previousReport # Null
    /\ call.report.coordinate = Home
    /\ call.previousReport.coordinate = North10km
    /\ call.previousReport.timestamp = Zero
    /\ Lt(Num(2), call.report.timestamp)
    /\ Lt(Num(10000), distanceMeters(North10km, Home))
    /\ NumEq(Div(distanceMeters(North10km, Home), call.report.timestamp),
             Num(5000))
    /\ "IMPOSSIBLE_SPEED" \notin call.result.reasons

\* C5: when the previous and the new report have the same timestamp and
\* different coordinates, IMPOSSIBLE_SPEED is among the reasons, however
\* small the movement.
C5_ZeroElapsedMovementFlagged ==
    ( /\ ReportEvaluated
      /\ call.previousReport # Null
      /\ NumEq(call.report.timestamp, call.previousReport.timestamp)
      /\ call.report.coordinate # call.previousReport.coordinate )
        => "IMPOSSIBLE_SPEED" \in call.result.reasons

\* C5 witness: a movement of about 0.1 m between two reports of the same time.
C5_Witness ==
    /\ ReportEvaluated
    /\ call.previousReport # Null
    /\ call.report.timestamp = Num(1)
    /\ call.previousReport.timestamp = Num(1)
    /\ call.report.coordinate = Home
    /\ call.previousReport.coordinate = North01
    /\ Lt(distanceMeters(North01, Home), Num(1))
    /\ "IMPOSSIBLE_SPEED" \in call.result.reasons

\* C6: RATE_LIMIT_EXCEEDED is among the reasons exactly when
\* recentReportsToday is 3 or more, whatever the other arguments.
C6_RateLimitIffAtCap ==
    ReportEvaluated =>
        "RATE_LIMIT_EXCEEDED" \in call.result.reasons <=>
            call.recentReportsToday >= 3

\* C6 witness: a third report of the day that triggers no other check.
C6_Witness ==
    /\ ReportEvaluated
    /\ call.recentReportsToday = 3
    /\ call.result.reasons = {"RATE_LIMIT_EXCEEDED"}

\* C7: TOO_CLOSE_TO_EXISTING is among the reasons exactly when some placement
\* is within 20 m of the report: a placement 15 m away is reported, placements
\* 25 m away are not, no placements are never reported, and only the set of
\* the placements matters, not their order.
C7_TooCloseIffPlacementWithin20 ==
    ReportEvaluated =>
        /\ "TOO_CLOSE_TO_EXISTING" \in call.result.reasons <=>
               \E c \in PlacementSet(call.recentArtifactPlacements) :
                   Le(distanceMeters(c, call.report.coordinate), Num(20))
        /\ (call.report.coordinate = Home
              /\ North15 \in PlacementSet(call.recentArtifactPlacements))
               => "TOO_CLOSE_TO_EXISTING" \in call.result.reasons
        /\ (call.report.coordinate = Home
              /\ PlacementSet(call.recentArtifactPlacements) \subseteq {East25})
               => "TOO_CLOSE_TO_EXISTING" \notin call.result.reasons
        /\ call.recentArtifactPlacements = <<>>
               => "TOO_CLOSE_TO_EXISTING" \notin call.result.reasons

\* C7 witness: the second of two placements is 15 m away, the first 25 m.
C7_Witness ==
    /\ ReportEvaluated
    /\ call.report.coordinate = Home
    /\ call.recentArtifactPlacements = <<East25, North15>>
    /\ Lt(distanceMeters(North15, Home), Num(20))
    /\ Lt(Num(20), distanceMeters(East25, Home))
    /\ "TOO_CLOSE_TO_EXISTING" \in call.result.reasons

\* C8: every verdict has flagged = true exactly when its reasons are not
\* empty.
C8_FlaggedIffReasons ==
    (call.op = "evaluateReport" /\ call.result.outcome = "returned") =>
        call.result.flagged <=> call.result.reasons # {}

\* C8 witness: a report that triggers no check is not flagged.
C8_Witness ==
    /\ ReportEvaluated
    /\ call.previousReport # Null
    /\ Len(call.recentArtifactPlacements) > 0
    /\ call.result.reasons = {}
    /\ call.result.flagged = FALSE

\* C9: the reasons are exactly the checks whose condition holds; nothing is
\* left out when several checks trigger.
C9_AllTriggeredReasonsReported ==
    ReportEvaluated =>
        call.result.reasons =
            {r \in ReasonCodes :
                \/ r = "MOCKED" /\ isMocked(call.report)
                \/ r = "IMPOSSIBLE_SPEED"
                     /\ isImpossibleSpeed(call.report, call.previousReport)
                \/ r = "RATE_LIMIT_EXCEEDED"
                     /\ isRateLimitExceeded(call.recentReportsToday)
                \/ r = "TOO_CLOSE_TO_EXISTING"
                     /\ isTooCloseToExisting(call.report,
                                             call.recentArtifactPlacements)}

\* C9 witness: one report triggers all four checks and all four are reported.
C9_Witness ==
    /\ ReportEvaluated
    /\ call.result.reasons = ReasonCodes

\* C10: every operation given a latitude outside [-90, 90] or a longitude
\* outside [-180, 180] fails with InvalidCoordinate and returns no distance
\* or verdict.
C10_OutOfRangeCoordinateFails ==
    /\ ( /\ call.op = "getDistanceTo"
         /\ call.user # Null
         /\ ~(IsValidCoordinate(call.user) /\ IsValidCoordinate(call.target)) )
           => call.outcome = "InvalidCoordinate"
    /\ ( /\ call.op = "isWithinRadius"
         /\ call.user # Null
         /\ Lt(Zero, call.radiusMeters)
         /\ ~(IsValidCoordinate(call.user) /\ IsValidCoordinate(call.target)) )
           => call.outcome = "InvalidCoordinate"
    /\ ( /\ call.op = "evaluateReport"
         /\ hasInvalidCoordinate(call.report, call.previousReport,
                                 call.recentArtifactPlacements) )
           => call.result.outcome = "InvalidCoordinate"

\* C11: calculateDistance is symmetric: for in-range coordinates a and b the
\* distance from a to b equals the distance from b to a, and isWithinRadius
\* gives the same verdict for (a, b, r) as for (b, a, r).
C11_DistanceSymmetric ==
    WithinRadiusCalled =>
        /\ NumEq(distanceMeters(call.user, call.target),
                 distanceMeters(call.target, call.user))
        /\ call.result = isWithinRadius(call.target, call.user.latitude,
                                        call.user.longitude, call.radiusMeters)

\* C11 witness: a call between two points that differ in latitude and in
\* longitude, answered with the distance 1.5 km apart.
C11_Witness ==
    /\ WithinRadiusCalled
    /\ call.user = NorthEast
    /\ call.target = Home
    /\ Lt(Num(1000), distanceMeters(call.user, call.target))
    /\ call.result = FALSE

\* C12: calculateDistance(a, a) is 0 for every in-range coordinate a: a user
\* standing on the target is within every positive radius, and a placement on
\* the spot of an existing one is TOO_CLOSE_TO_EXISTING.
C12_DistanceToSelfIsZero ==
    /\ (WithinRadiusCalled /\ call.user = call.target) =>
           /\ NumEq(distanceMeters(call.user, call.target), Zero)
           /\ Lt(Zero, call.radiusMeters) => call.result = TRUE
    /\ ( /\ ReportEvaluated
         /\ call.report.coordinate
                \in PlacementSet(call.recentArtifactPlacements) ) =>
           "TOO_CLOSE_TO_EXISTING" \in call.result.reasons

\* C12 witness: a user on the target is within the smallest positive radius.
C12_Witness ==
    /\ WithinRadiusCalled
    /\ call.user = call.target
    /\ call.radiusMeters = Num(10)
    /\ call.result = TRUE

\* floor(x): the largest integer not above x.
MathFloor(x) ==
    IF x.s = -1 /\ ~NumEq(x, Num(-IntegerPart(x)))
    THEN -IntegerPart(x) - 1
    ELSE x.s * IntegerPart(x)

\* C13: chunkOf returns chunk_x = floor(longitude / lonDegPerChunk) and
\* chunk_y = floor(latitude / latDegPerChunk), rounding toward negative
\* infinity for negative coordinates too.
C13_ChunkIsFloor ==
    call.op = "chunkOf" =>
        /\ call.result.chunk_x =
               MathFloor(Div(call.coordinate.longitude, LonDegPerChunk))
        /\ call.result.chunk_y =
               MathFloor(Div(call.coordinate.latitude, LatDegPerChunk))

\* C14: every operation is a function of its arguments alone: a call made
\* again with equal arguments returns an equal result whatever happened in
\* between.  isWithinRadius is called with targetLat, targetLng and
\* radiusMeters, getDistanceTo with targetLat and targetLng, chunkOf with a
\* coordinate.
C14_EqualArgumentsEqualResults ==
    [][ /\ ( /\ call.op = "isWithinRadius"
             /\ call'.op = "isWithinRadius"
             /\ call.user # Null
             /\ call'.user # Null
             /\ Lt(Zero, call.radiusMeters)
             /\ call'.target = call.target
             /\ call'.radiusMeters = call.radiusMeters ) =>
               call'.result = call.result
        /\ ( /\ call.op = "getDistanceTo"
             /\ call'.op = "getDistanceTo"
             /\ call.user # Null
             /\ call'.user # Null
             /\ call'.target = call.target ) =>
               call'.result = call.result
        /\ ( /\ call.op = "chunkOf"
             /\ call'.op = "chunkOf"
             /\ call'.coordinate = call.coordinate ) =>
               call'.result = call.result ]_vars

\* The verdict the evaluator gives to the arguments of request t when that
\* call is the only one made.
VerdictAlone(t) ==
    evaluateReport(pending[t].report, pending[t].previousReport,
                   pending[t].recentReportsToday,
                   pending[t].recentArtifactPlacements)

RefreshSteps ==
    {"getRefreshToken", "postRefresh", "setAccessToken", "setRefreshToken",
     "deleteAccessToken", "deleteRefreshToken", "deleteUser"}

InQueue(r) == \E i \in 1..Len(failedQueue) : failedQueue[i] = r

\* Request r has just received a response with the given status.
Responded(r, status) ==
    /\ requests[r].pc = "sent"
    /\ requests'[r].pc # "sent"
    /\ requests'[r].status = status

AuthAtRest ==
    /\ ~isRefreshing
    /\ authOp = NoAuthOp
    /\ \A r \in Requests : requests[r].pc \notin RefreshSteps

\* C17: every request parked in failedQueue is settled when the refresh it
\* waits for finishes, none is added after the queue was processed and then
\* left pending: failedQueue is empty whenever isRefreshing is false.
C17_QueueEmptyWhenNotRefreshing ==
    AuthAtRest =>
        /\ failedQueue = <<>>
        /\ \A r \in Requests : requests[r].pc # "queued"

\* C18: a 401 response to a request whose URL contains /auth/login,
\* /auth/register or /auth/refresh never triggers a refresh and is never
\* queued: it is rejected with the original error, and the stored
\* access_token, refresh_token and user are left unchanged.
C18_AuthEndpointsNeverRefresh ==
    /\ [](\A r \in Requests :
             requests[r].url \in authEndpoints =>
                 /\ requests[r].pc \notin RefreshSteps \cup {"queued"}
                 /\ ~InQueue(r)
                 /\ ~requests[r]._retry
                 /\ requests[r].replays = 0)
    /\ [][\A r \in Requests :
             (Responded(r, "401") /\ requests[r].url \in authEndpoints) =>
                 /\ requests'[r].pc = "rejected"
                 /\ UNCHANGED <<secureStore, isRefreshing, failedQueue>>]_vars

\* C18 witness: a login rejected with its 401 while a session is stored.
C18_Witness ==
    /\ requests["auth"].url = <<"auth", "login">>
    /\ requests["auth"].pc = "rejected"
    /\ requests["auth"].status = "401"
    /\ secureStore.refresh_token # 0

\* C19: the response interceptor re-sends any given original request at most
\* once, whether it started the refresh or was queued behind it.
C19_AtMostOneReplay ==
    \A r \in Requests : requests[r].replays <= 1

\* C20: in-memory and persisted auth state agree: isAuthenticated = true
\* implies that SecureStore holds an access_token and a refresh_token (stated
\* for the states where no store operation and no refresh is in progress).
C20_AuthenticatedImpliesTokens ==
    (AuthAtRest /\ authStore.isAuthenticated) =>
        /\ secureStore.access_token # 0
        /\ secureStore.refresh_token # 0

\* C21: logout always clears the local session, even if the server logout
\* request fails: when authStore.logout completes after authService.logout
\* has completed, SecureStore holds no access_token, refresh_token or user,
\* and the store has user = null, tokens = null and isAuthenticated = false.
C21_LogoutClearsSession ==
    [][(authOp.op = "logout" /\ authOp' = NoAuthOp /\ authOp.afterServerLogout)
          => /\ secureStore' = EmptyStore
             /\ authStore'.user = 0
             /\ authStore'.tokens = 0
             /\ ~authStore'.isAuthenticated]_vars

\* C22: at most one OS location subscription is active at any time, and every
\* subscription ever created is the one held in locationSubscription or has
\* been removed.
C22_AtMostOneSubscription ==
    /\ Cardinality(subscriptions.active) <= 1
    /\ subscriptions.active \subseteq {locationSubscription}

\* C23: when the component unmounts while the store is watching, the cleanup
\* stops the watch: the subscription is removed and isWatching becomes false.
C23_UnmountStopsWatch ==
    [][(component.mounted /\ ~component'.mounted /\ isWatching)
          => /\ ~isWatching'
             /\ locationSubscription \notin subscriptions'.active]_vars

\* C24: the offline banner is persistent while the device is offline: in
\* every state where isConnected is false the banner is rendered, slid into
\* view, and shows "No internet connection".
C24_BannerShownWhileOffline ==
    ~networkStatus.isConnected =>
        /\ rendered
        /\ slideAnim.toValue = 0
        /\ text = "No internet connection"

====
